---------------------------- MODULE Spec2Model ----------------------------
(***************************************************************************)
(* Model of the dynamic model-residency manager of the PDF converter       *)
(* pipeline: DynamicModelManager (src/vllm/model_manager.py) and the       *)
(* chat-completion handler that drives it (src/vllm/dynamic_server.py).    *)
(*                                                                         *)
(* Scheduling.  The server is one asyncio event loop (uvicorn, workers=1): *)
(* coroutines interleave only where one of them really suspends.  The      *)
(* manager's coroutines never suspend (unload_current_model and the engine *)
(* constructor are synchronous code behind "await"), so the only           *)
(* suspension point is the wait for the generation result.  `running` is   *)
(* the coroutine that owns the event-loop thread.  self.lock is a          *)
(* threading.Lock: it is not reentrant, and a coroutine that waits for it  *)
(* blocks the thread, hence the whole loop.                                *)
(***************************************************************************)
EXTENDS Naturals, Sequences, FiniteSets, TLC

\* ------------------------------------------------------------------ bounds
NumProcs == 2       \* concurrent callers (coroutines)
MaxHist  == 2       \* completed calls remembered in hist
MaxRetry == 3       \* largest retry_count an operator is built with
MaxWaitTime == 25   \* largest max_wait_time, in seconds

Procs  == 1..NumProcs
NoProc == 0

\* ------------------------------------------------------------- ModelState
UNLOADED  == "unloaded"
LOADING   == "loading"
LOADED    == "loaded"
UNLOADING == "unloading"
ERROR     == "error"
ModelState == {UNLOADED, LOADING, LOADED, UNLOADING, ERROR}

\* --------------------------------------------------------------- TaskType
CONTENT_TRANSFORMATION == "content_transformation"
TRANSLATION            == "translation"
TaskType == {CONTENT_TRANSFORMATION, TRANSLATION}

\* Python's None (current_model, vllm_engine, a lookup that found nothing).
None == "None"

\* ------------------------------------------------------------- the registry
\* self.models, in the insertion order of the dict.
KeyOrder == <<"content_transformation", "translation">>

models ==
  [k \in {KeyOrder[i] : i \in 1..Len(KeyOrder)} |->
     IF k = "content_transformation"
       THEN [name |-> "Qwen/Qwen2.5-VL-32B-Instruct", alias |-> "content-transformer",
             task_type |-> CONTENT_TRANSFORMATION]
       ELSE [name |-> "Qwen/Qwen2.5-32B-Instruct", alias |-> "translator",
             task_type |-> TRANSLATION]]

Keys == DOMAIN models

\* Inputs the callers may pass: the registered ones and one that is not.
KeyInputs  == Keys \cup {"no-such-key"}
TaskInputs == TaskType \cup {"summarization"}

\* `model_key in self.models`
KnownKey(key) == key \in DOMAIN models

\* The loop of ensure_model_loaded: the first key, in dict order, whose
\* config serves the task type; None when there is none.
RECURSIVE FirstKeyFor(_, _)
FirstKeyFor(task, i) ==
  IF i > Len(KeyOrder) THEN None
  ELSE IF models[KeyOrder[i]].task_type = task THEN KeyOrder[i]
  ELSE FirstKeyFor(task, i + 1)

ModelKeyForTask_AnyKey(task) == KeyOrder[1]
ModelKeyForTask(task) == FirstKeyFor(task, 1)

VARIABLES
  current_model,   \* self.current_model: a key or None
  model_states,    \* self.model_states: key -> ModelState
  vllm_engine,     \* self.vllm_engine: None, or the key the engine was built for
  lock,            \* self.lock: the coroutine holding it, or NoProc
  running,         \* the coroutine that owns the event-loop thread, or NoProc
  pc,              \* per coroutine: the statement it is at
  frames,          \* per coroutine: the functions it is inside, innermost last
  op,              \* per coroutine: the top-level call it makes
  arg,             \* per coroutine: that call's argument (task type or key)
  request,         \* per coroutine: the chat request it serves
  task_type,       \* per coroutine: create_chat_completion's local
  model_key,       \* per coroutine: load_model's / ensure_model_loaded's local
  ret,             \* per coroutine: the value the last function returned
  response,        \* per coroutine: the HTTP response of the handler
  gen_engine,      \* per coroutine: the engine its generate call runs on
  pre,             \* per coroutine: the manager's state when its manager call began
  acts,            \* per coroutine: what the call has done to lock and engine
  hist             \* the ensure_model_loaded calls completed since construction, while
                   \* nothing else was called and they are at most MaxHist

\* The pipeline's operator (src/airflow/dags/shared_utils.py), a client of the
\* server: one sequential caller.
VARIABLES
  c_pc,            \* the statement the operator is at
  c_op,            \* the method called: make_request or execute
  retry_count,     \* self.retry_count
  outcomes,        \* make_request: how each attempt made so far has ended
  max_wait_time,   \* _wait_for_model_ready's parameter, in seconds
  elapsed,         \* time.time() - start_time, in seconds
  polls,           \* health polls made by this call
  last_answer,     \* the answer to the last health poll
  ready,           \* what _wait_for_model_ready returned
  inference_requests,  \* inference requests this execute has issued
  c_result         \* how the method ended: what it returned or raised

manager == <<current_model, model_states, vllm_engine>>
locals  == <<request, task_type, model_key, response, gen_engine>>
client  == <<c_pc, c_op, retry_count, outcomes, max_wait_time, elapsed, polls,
             last_answer, ready, inference_requests, c_result>>
server  == <<current_model, model_states, vllm_engine, lock, running, pc, frames,
             op, arg, request, task_type, model_key, ret, response, gen_engine,
             pre, acts, hist>>
vars == <<current_model, model_states, vllm_engine, lock, running, pc, frames,
          op, arg, request, task_type, model_key, ret, response, gen_engine,
          pre, acts, hist, client>>


\* ------------------------------------------------------- chat requests
\* A message content is a sequence of words; the text of a request is the
\* words of its messages joined by blanks.  Words stand for themselves; the
\* Cyrillic and Chinese keywords of the source are written in Latin letters.
NoHint == "None"

content_keywords ==
  {"preobrazuj", "markdown", "struktura", "tablica",
   "pdf", "dokument", "izvlechenie", "formatirovanie"}

translation_keywords ==
  {"perevedi", "translate", "perevod", "translation",
   "russkij", "english", "zhongwen", "yazyk", "language"}

\* str.lower() on the words used here.
Lower(w) ==
  CASE w = "Translate" -> "translate"
    [] w = "PDF"       -> "pdf"
    [] w = "Markdown"  -> "markdown"
    [] OTHER           -> w

\* `keyword in text` is a substring test: a keyword occurs in a word when it
\* is the word or a proper part of it.
PartOf(keyword, w) ==
  \/ keyword = w
  \/ <<keyword, w>> \in {<<"translation", "translations">>, <<"pdf", "pdfs">>,
                         <<"perevod", "perevody">>}

\* combined_text, as the sequence of its lower-cased words.
RECURSIVE CombinedText(_)
CombinedText(messages) ==
  IF messages = <<>> THEN <<>>
  ELSE [i \in 1..Len(messages[1].content) |-> Lower(messages[1].content[i])]
       \o CombinedText(Tail(messages))

Score(keywords, text) ==
  Cardinality({k \in keywords : \E i \in 1..Len(text) : PartOf(k, text[i])})

determine_task_type_from_messages_TieToTranslation(messages) ==
  LET combined_text     == CombinedText(messages)
      content_score     == Score(content_keywords, combined_text)
      translation_score == Score(translation_keywords, combined_text)
  IN  IF translation_score >= content_score THEN TRANSLATION
      ELSE CONTENT_TRANSFORMATION
determine_task_type_from_messages(messages) ==
  LET combined_text     == CombinedText(messages)
      content_score     == Score(content_keywords, combined_text)
      translation_score == Score(translation_keywords, combined_text)
  IN  IF translation_score > content_score THEN TRANSLATION
      ELSE CONTENT_TRANSFORMATION

\* TaskType(request.task_type): the enum member with that value; a value that
\* names no member raises ValueError, which the handler swallows.
ResolveTaskType_ClassifierOnly(req) ==
  determine_task_type_from_messages(req.messages)
ResolveTaskType(req) ==
  IF req.task_type # NoHint /\ req.task_type \in TaskType
    THEN req.task_type
    ELSE determine_task_type_from_messages(req.messages)

Msg(role, content) == [role |-> role, content |-> content]

NoRequest == [task_type |-> NoHint, messages |-> <<>>]

Requests ==
  { [task_type |-> NoHint, messages |-> <<>>],
    [task_type |-> NoHint, messages |-> <<Msg("user", <<"hello">>)>>],
    [task_type |-> NoHint,
     messages  |-> <<Msg("system", <<"hello">>), Msg("user", <<"Translate", "english">>)>>],
    [task_type |-> NoHint,
     messages  |-> <<Msg("user", <<"PDF", "translations">>)>>],
    [task_type |-> "translation",
     messages  |-> <<Msg("user", <<"Markdown", "tablica">>)>>],
    [task_type |-> "content_transformation",
     messages  |-> <<Msg("user", <<"perevedi", "hello">>)>>],
    [task_type |-> "summarize",
     messages  |-> <<Msg("user", <<"translate", "language", "pdf">>)>>] }

\* ------------------------------------------------------ per-call records
\* How a generation can end: a final output, no output, an exception.
GenOutcomes == {"ok", "empty", "error"}

Snapshot == [current_model |-> current_model, model_states |-> model_states,
             vllm_engine |-> vllm_engine]
FreshSnapshot == [current_model |-> None, model_states |-> [k \in Keys |-> UNLOADED],
                  vllm_engine |-> None]

\* What a call has done so far: engine constructions attempted, engines
\* released, lock acquisitions, and whether a construction or a release raised.
NoActs == [constructed |-> 0, released |-> 0, acquired |-> 0,
           load_failed |-> FALSE, unload_failed |-> FALSE]
\* hist once anything but ensure_model_loaded has been called, or more than
\* MaxHist calls have completed.
Forgotten == <<[task |-> "forgotten", ok |-> FALSE, constructed |-> 0,
                load_failed |-> FALSE]>>

NoResponse == [status |-> 0, detail |-> "", model_key |-> None]

\* The operator before any of its methods is called.
NoResult == [kind |-> "none", value |-> "none", attempt |-> 0]
NoAnswer == [status_code |-> 0, status |-> "none"]

ClientIdle ==
  /\ c_pc = "idle"
  /\ c_op = "none"
  /\ retry_count = 0
  /\ outcomes = <<>>
  /\ max_wait_time = 0
  /\ elapsed = 0
  /\ polls = 0
  /\ last_answer = NoAnswer
  /\ ready = FALSE
  /\ inference_requests = 0
  /\ c_result = NoResult

Init ==
  /\ ClientIdle
  /\ current_model = None
  /\ model_states = [k \in Keys |-> UNLOADED]
  /\ vllm_engine = None
  /\ lock = NoProc
  /\ running = NoProc
  /\ pc = [p \in Procs |-> "idle"]
  /\ frames = [p \in Procs |-> <<>>]
  /\ op = [p \in Procs |-> "none"]
  /\ arg = [p \in Procs |-> None]
  /\ request = [p \in Procs |-> NoRequest]
  /\ task_type = [p \in Procs |-> None]
  /\ model_key = [p \in Procs |-> None]
  /\ ret = [p \in Procs |-> FALSE]
  /\ response = [p \in Procs |-> NoResponse]
  /\ gen_engine = [p \in Procs |-> None]
  /\ pre = [p \in Procs |-> FreshSnapshot]
  /\ acts = [p \in Procs |-> NoActs]
  /\ hist = <<>>


\* ------------------------------------------------------------- helpers
CanRun(p) == running \in {NoProc, p}

Top(fs) == fs[Len(fs)]
Front(fs) == SubSeq(fs, 1, Len(fs) - 1)

\* Where control goes when a function returns v to the callers `fs` (innermost
\* last): ensure_model_loaded returns load_model's value as its own; load_model
\* goes on to build the engine when unload_current_model returned True and
\* returns False itself otherwise; the chat and swap handlers test the value.
RECURSIVE Unwind(_, _)
Unwind(fs, v) ==
  IF fs = <<>> THEN [pc |-> "done", frames |-> <<>>, ret |-> v]
  ELSE CASE Top(fs) = "ensure_model_loaded" -> Unwind(Front(fs), v)
         [] Top(fs) = "load_model" ->
              IF v THEN [pc |-> "load_engine", frames |-> fs, ret |-> v]
                   ELSE Unwind(Front(fs), FALSE)
         [] Top(fs) = "swap_model" -> [pc |-> "swap_result", frames |-> fs, ret |-> v]
         [] OTHER -> [pc |-> "chat_ready", frames |-> fs, ret |-> v]

\* The innermost function of p returns v.
Return(p, v) ==
  LET to == Unwind(Front(frames[p]), v)
  IN  /\ pc' = [pc EXCEPT ![p] = to.pc]
      /\ frames' = [frames EXCEPT ![p] = to.frames]
      /\ ret' = [ret EXCEPT ![p] = v]

\* p calls function f, which starts at statement `at`.
Enter(p, f, at) ==
  /\ pc' = [pc EXCEPT ![p] = at]
  /\ frames' = [frames EXCEPT ![p] = Append(frames[p], f)]

\* A top-level call begins: the coroutine gets the thread.
Begin(p, o, a, req, snapshot, at) ==
  /\ pc[p] = "idle"
  /\ CanRun(p)
  /\ running' = p
  /\ op' = [op EXCEPT ![p] = o]
  /\ arg' = [arg EXCEPT ![p] = a]
  /\ request' = [request EXCEPT ![p] = req]
  /\ pre' = [pre EXCEPT ![p] = snapshot]
  /\ acts' = [acts EXCEPT ![p] = NoActs]
  /\ pc' = [pc EXCEPT ![p] = at]
  /\ frames' = [frames EXCEPT ![p] = <<o>>]
  /\ ret' = [ret EXCEPT ![p] = FALSE]
  /\ response' = [response EXCEPT ![p] = NoResponse]
  /\ task_type' = [task_type EXCEPT ![p] = None]
  /\ model_key' = [model_key EXCEPT ![p] = None]
  /\ gen_engine' = [gen_engine EXCEPT ![p] = None]
  /\ hist' = IF o = "ensure_model_loaded" THEN hist ELSE Forgotten
  /\ UNCHANGED <<manager, lock>>

\* A statement of p that is not a call start.
At(p, label) == pc[p] = label /\ CanRun(p) /\ running' = p

Count(p, field) == [acts EXCEPT ![p][field] = @ + 1]

\* ------------------------------------------------- the manager's conditions
\* current_model == model_key and model_states[model_key] == LOADED
IsCurrentAndLoaded_NeverFast(key) == FALSE
IsCurrentAndLoaded_AnyButUnloaded(key) == model_states[key] # UNLOADED
IsCurrentAndLoaded(key) ==
  current_model = key /\ model_states[key] = LOADED

\* self.current_model and self.current_model != model_key
MustUnloadPrevious_Never(key) == FALSE
MustUnloadPrevious(key) ==
  current_model # None /\ current_model # key

\* ------------------------------------------------------ the callers
CallEnsure(p) ==
  \E t \in TaskInputs :
    Begin(p, "ensure_model_loaded", t, NoRequest, Snapshot, "ensure_lookup")

CallLoad(p) ==
  \E k \in KeyInputs :
    Begin(p, "load_model", k, NoRequest, Snapshot, "load_check")

CallUnload(p) ==
  Begin(p, "unload_current_model", None, NoRequest, Snapshot, "unload_check")

\* The caller has the result.
Finish(p) ==
  /\ pc[p] = "done"
  /\ running = p
  /\ running' = NoProc
  /\ pc' = [pc EXCEPT ![p] = "idle"]
  /\ hist' = IF hist # Forgotten /\ Len(hist) < MaxHist
               THEN Append(hist, [task |-> arg[p], ok |-> ret[p],
                                  constructed |-> acts[p].constructed,
                                  load_failed |-> acts[p].load_failed])
               ELSE Forgotten
  /\ op' = [op EXCEPT ![p] = "none"]
  /\ arg' = [arg EXCEPT ![p] = None]
  /\ request' = [request EXCEPT ![p] = NoRequest]
  /\ pre' = [pre EXCEPT ![p] = FreshSnapshot]
  /\ acts' = [acts EXCEPT ![p] = NoActs]
  /\ ret' = [ret EXCEPT ![p] = FALSE]
  /\ response' = [response EXCEPT ![p] = NoResponse]
  /\ task_type' = [task_type EXCEPT ![p] = None]
  /\ model_key' = [model_key EXCEPT ![p] = None]
  /\ gen_engine' = [gen_engine EXCEPT ![p] = None]
  /\ UNCHANGED <<manager, lock, frames>>

\* ----------------------------------------------------- ensure_model_loaded
\* The lookup loop and `if not model_key: return False`.
EnsureLookup(p) ==
  /\ At(p, "ensure_lookup")
  /\ LET t   == IF op[p] = "ensure_model_loaded" THEN arg[p] ELSE task_type[p]
         key == ModelKeyForTask(t)
     IN  /\ model_key' = [model_key EXCEPT ![p] = key]
         /\ IF key = None THEN Return(p, FALSE)
            ELSE /\ pc' = [pc EXCEPT ![p] = "ensure_check"]
                 /\ UNCHANGED <<frames, ret>>
  /\ UNCHANGED <<manager, lock, op, arg, request, task_type, response, gen_engine,
                 pre, acts, hist>>

\* The test outside the lock: load_model when the key is not the loaded
\* current model, True otherwise.
EnsureCheck(p) ==
  /\ At(p, "ensure_check")
  /\ IF ~IsCurrentAndLoaded(model_key[p])
       THEN Enter(p, "load_model", "load_check") /\ UNCHANGED ret
       ELSE Return(p, TRUE)
  /\ UNCHANGED <<manager, lock, op, arg, locals, pre, acts, hist>>

\* ---------------------------------------------------------------- load_model
\* `if model_key not in self.models: return False`, before the lock.
LoadCheck(p) ==
  /\ At(p, "load_check")
  /\ LET key == IF op[p] = "load_model" THEN arg[p] ELSE model_key[p]
     IN  /\ model_key' = [model_key EXCEPT ![p] = key]
         /\ IF ~KnownKey(key) THEN Return(p, FALSE)
            ELSE /\ pc' = [pc EXCEPT ![p] = "load_acquire"]
                 /\ UNCHANGED <<frames, ret>>
  /\ UNCHANGED <<manager, lock, op, arg, request, task_type, response, gen_engine,
                 pre, acts, hist>>

\* `with self.lock:` the thread waits until the lock is free.
LoadAcquire(p) ==
  /\ At(p, "load_acquire")
  /\ lock = NoProc
  /\ lock' = p
  /\ acts' = Count(p, "acquired")
  /\ pc' = [pc EXCEPT ![p] = "load_fast"]
  /\ UNCHANGED <<manager, frames, op, arg, locals, ret, pre, hist>>

\* Already loaded: return True.  Otherwise the key becomes LOADING.
LoadFastPath(p) ==
  /\ At(p, "load_fast")
  /\ IF IsCurrentAndLoaded(model_key[p])
       THEN /\ lock' = NoProc
            /\ Return(p, TRUE)
            /\ UNCHANGED model_states
       ELSE /\ model_states' = [model_states EXCEPT ![model_key[p]] = LOADING]
            /\ pc' = [pc EXCEPT ![p] = "load_evict"]
            /\ UNCHANGED <<lock, frames, ret>>
  /\ UNCHANGED <<current_model, vllm_engine, op, arg, locals, pre, acts, hist>>

\* Another model is current: call unload_current_model, with the lock held.
LoadEvict(p) ==
  /\ At(p, "load_evict")
  /\ IF MustUnloadPrevious(model_key[p])
       THEN Enter(p, "unload_current_model", "unload_check")
       ELSE pc' = [pc EXCEPT ![p] = "load_engine"] /\ UNCHANGED frames
  /\ UNCHANGED <<manager, lock, op, arg, locals, ret, pre, acts, hist>>

\* AsyncLLMEngine.from_engine_args: the engine, or an exception.
LoadEngine(p) ==
  /\ At(p, "load_engine")
  /\ \E raises \in BOOLEAN :
       IF raises
         THEN /\ pc' = [pc EXCEPT ![p] = "load_except"]
              /\ acts' = [acts EXCEPT ![p].constructed = @ + 1, ![p].load_failed = TRUE]
              /\ UNCHANGED vllm_engine
         ELSE /\ pc' = [pc EXCEPT ![p] = "load_set_current"]
              /\ acts' = Count(p, "constructed")
              /\ vllm_engine' = model_key[p]
  /\ UNCHANGED <<current_model, model_states, lock, frames, op, arg, locals, ret,
                 pre, hist>>

\* self.current_model = model_key
LoadSetCurrent(p) ==
  /\ At(p, "load_set_current")
  /\ current_model' = model_key[p]
  /\ pc' = [pc EXCEPT ![p] = "load_set_loaded"]
  /\ UNCHANGED <<model_states, vllm_engine, lock, frames, op, arg, locals, ret,
                 pre, acts, hist>>

\* self.model_states[model_key] = LOADED; return True (the lock is released).
LoadSetLoaded(p) ==
  /\ At(p, "load_set_loaded")
  /\ model_states' = [model_states EXCEPT ![model_key[p]] = LOADED]
  /\ lock' = NoProc
  /\ Return(p, TRUE)
  /\ UNCHANGED <<current_model, vllm_engine, op, arg, locals, pre, acts, hist>>

\* except: the key becomes ERROR; return False (the lock is released).
LoadExcept(p) ==
  /\ At(p, "load_except")
  /\ model_states' = [model_states EXCEPT ![model_key[p]] = ERROR]
  /\ lock' = NoProc
  /\ Return(p, FALSE)
  /\ UNCHANGED <<current_model, vllm_engine, op, arg, locals, pre, acts, hist>>

\* ------------------------------------------------------ unload_current_model
\* `if not self.current_model: return True`, before the lock.
UnloadCheck(p) ==
  /\ At(p, "unload_check")
  /\ IF current_model = None THEN Return(p, TRUE)
     ELSE pc' = [pc EXCEPT ![p] = "unload_acquire"] /\ UNCHANGED <<frames, ret>>
  /\ UNCHANGED <<manager, lock, op, arg, locals, pre, acts, hist>>

\* `with self.lock:` the thread waits until the lock is free, also when the
\* holder is this very coroutine.
UnloadAcquire(p) ==
  /\ At(p, "unload_acquire")
  /\ lock = NoProc
  /\ lock' = p
  /\ acts' = Count(p, "acquired")
  /\ pc' = [pc EXCEPT ![p] = "unload_mark"]
  /\ UNCHANGED <<manager, frames, op, arg, locals, ret, pre, hist>>

\* self.model_states[self.current_model] = UNLOADING
UnloadMark(p) ==
  /\ At(p, "unload_mark")
  /\ model_states' = [model_states EXCEPT ![current_model] = UNLOADING]
  /\ pc' = [pc EXCEPT ![p] = "unload_release"]
  /\ UNCHANGED <<current_model, vllm_engine, lock, frames, op, arg, locals, ret,
                 pre, acts, hist>>

\* Drop the engine and clean the GPU memory; an exception raised by the
\* release leaves the handle in place.
UnloadRelease(p) ==
  /\ At(p, "unload_release")
  /\ \E raises \in BOOLEAN :
       IF raises
         THEN /\ pc' = [pc EXCEPT ![p] = "unload_except"]
              /\ acts' = [acts EXCEPT ![p].unload_failed = TRUE]
              /\ UNCHANGED vllm_engine
         ELSE /\ pc' = [pc EXCEPT ![p] = "unload_set_unloaded"]
              /\ vllm_engine' = None
              /\ acts' = IF vllm_engine # None THEN Count(p, "released") ELSE acts
  /\ UNCHANGED <<current_model, model_states, lock, frames, op, arg, locals, ret,
                 pre, hist>>

\* self.model_states[self.current_model] = UNLOADED
UnloadSetUnloaded_LeavesUnloading(p) ==
  /\ At(p, "unload_set_unloaded")
  /\ pc' = [pc EXCEPT ![p] = "unload_clear_current"]
  /\ UNCHANGED <<manager, lock, frames, op, arg, locals, ret, pre, acts, hist>>
UnloadSetUnloaded(p) ==
  /\ At(p, "unload_set_unloaded")
  /\ model_states' = [model_states EXCEPT ![current_model] = UNLOADED]
  /\ pc' = [pc EXCEPT ![p] = "unload_clear_current"]
  /\ UNCHANGED <<current_model, vllm_engine, lock, frames, op, arg, locals, ret,
                 pre, acts, hist>>

\* self.current_model = None; return True (the lock is released).
UnloadClearCurrent(p) ==
  /\ At(p, "unload_clear_current")
  /\ current_model' = None
  /\ lock' = NoProc
  /\ Return(p, TRUE)
  /\ UNCHANGED <<model_states, vllm_engine, op, arg, locals, pre, acts, hist>>

\* except: return False (the lock is released); no state is written.
UnloadExcept(p) ==
  /\ At(p, "unload_except")
  /\ lock' = NoProc
  /\ Return(p, FALSE)
  /\ UNCHANGED <<manager, op, arg, locals, pre, acts, hist>>


\* ------------------------------------------------- create_chat_completion
CallChat(p) ==
  \E r \in Requests :
    Begin(p, "create_chat_completion", None, r, Snapshot, "chat_task")

\* An exception raised inside the handler's try block, HTTPException included,
\* is caught by `except Exception` and answered with status 500; the detail
\* is the text of what was raised.
HTTPException(status_code, detail) == [status |-> status_code, detail |-> detail]

ExceptHandler(raised) ==
  [status |-> 500, detail |-> raised.detail, model_key |-> None]

\* The handler ends with what `except Exception` makes of `raised`.
Fail(p, raised) ==
  /\ response' = [response EXCEPT ![p] = ExceptHandler(raised)]
  /\ pc' = [pc EXCEPT ![p] = "done"]
  /\ frames' = [frames EXCEPT ![p] = <<>>]

\* The task type: the hint when it names a TaskType, the classifier otherwise;
\* then ensure_model_loaded(task_type).
ChatTask(p) ==
  /\ At(p, "chat_task")
  /\ task_type' = [task_type EXCEPT ![p] = ResolveTaskType(request[p])]
  /\ Enter(p, "ensure_model_loaded", "ensure_lookup")
  /\ UNCHANGED <<manager, lock, op, arg, request, model_key, ret, response,
                 gen_engine, pre, acts, hist>>

\* `if not model_ready: raise HTTPException(503)` and
\* `if not model_manager.vllm_engine: raise HTTPException(503)`.
ChatReady_Retries(p) ==
  /\ At(p, "chat_ready")
  /\ IF ~ret[p]
       THEN Enter(p, "ensure_model_loaded", "ensure_lookup") /\ UNCHANGED response
       ELSE /\ pc' = [pc EXCEPT ![p] = "chat_generate"]
            /\ UNCHANGED <<frames, response>>
  /\ UNCHANGED <<manager, lock, op, arg, request, task_type, model_key, ret,
                 gen_engine, pre, acts, hist>>
ChatReady(p) ==
  /\ At(p, "chat_ready")
  /\ IF ~ret[p]
       THEN Fail(p, HTTPException(503, "model load failed"))
       ELSE IF vllm_engine = None
         THEN Fail(p, HTTPException(503, "engine unavailable"))
         ELSE /\ pc' = [pc EXCEPT ![p] = "chat_generate"]
              /\ UNCHANGED <<frames, response>>
  /\ UNCHANGED <<manager, lock, op, arg, request, task_type, model_key, ret,
                 gen_engine, pre, acts, hist>>

\* The prompt and the sampling parameters are built from the request, which
\* is not read again; generate is started on the engine that is resident now
\* and the coroutine suspends on the result stream.  What the manager was
\* when the request came in is of no interest from here on.
ChatGenerate(p) ==
  /\ pc[p] = "chat_generate"
  /\ running = p
  /\ running' = NoProc
  /\ gen_engine' = [gen_engine EXCEPT ![p] = vllm_engine]
  /\ request' = [request EXCEPT ![p] = NoRequest]
  /\ pre' = [pre EXCEPT ![p] = FreshSnapshot]
  /\ pc' = [pc EXCEPT ![p] = "chat_await"]
  /\ UNCHANGED <<manager, lock, frames, op, arg, task_type, model_key,
                 ret, response, acts, hist>>

\* What the handler does to the manager when the generation has failed: the
\* except block logs and raises, it calls nothing of the manager.
OnGenerationFailure_MarksError ==
  /\ model_states' = [k \in Keys |-> IF k = current_model THEN ERROR
                                                          ELSE model_states[k]]
  /\ UNCHANGED <<current_model, vllm_engine>>
OnGenerationFailure == UNCHANGED manager

\* The stream ends: with an exception, with no output, or with a final output.
ChatAwait(p) ==
  /\ At(p, "chat_await")
  /\ \E outcome \in GenOutcomes :
       IF outcome = "error"
         THEN Fail(p, HTTPException(500, "generation error")) /\ OnGenerationFailure
         ELSE IF outcome = "empty"
           THEN Fail(p, HTTPException(500, "No output generated"))
                /\ OnGenerationFailure
           ELSE /\ pc' = [pc EXCEPT ![p] = "chat_respond"]
                /\ UNCHANGED <<frames, response, manager>>
  /\ UNCHANGED <<lock, op, arg, request, task_type, model_key, ret,
                 gen_engine, pre, acts, hist>>

\* final_output.outputs is a list (it is tested for emptiness and indexed with
\* [0]); the token count reads the attribute token_ids of that list, which a
\* list does not have.
OutputsHasTokenIds == FALSE

\* The token counts, then the envelope with the manager's current model.
ChatRespond(p) ==
  /\ At(p, "chat_respond")
  /\ IF ~OutputsHasTokenIds
       THEN Fail(p, HTTPException(500, "AttributeError"))
       ELSE IF current_model = None
         THEN Fail(p, HTTPException(500, "KeyError"))
         ELSE /\ response' = [response EXCEPT ![p] =
                    [status |-> 200, detail |-> task_type[p],
                     model_key |-> current_model]]
              /\ pc' = [pc EXCEPT ![p] = "done"]
              /\ frames' = [frames EXCEPT ![p] = <<>>]
  /\ UNCHANGED <<manager, lock, op, arg, request, task_type, model_key, ret,
                 gen_engine, pre, acts, hist>>

\* ------------------------------------------------- POST /v1/models/swap
CallSwap(p) ==
  \E k \in KeyInputs :
    Begin(p, "swap_model", k, NoRequest, FreshSnapshot, "swap_check")

\* `if request.model_key not in model_manager.models: raise HTTPException(400)`,
\* inside the try block; otherwise load_model(request.model_key).
SwapCheck(p) ==
  /\ At(p, "swap_check")
  /\ model_key' = [model_key EXCEPT ![p] = arg[p]]
  /\ IF ~KnownKey(arg[p])
       THEN Fail(p, HTTPException(400, "unknown model"))
       ELSE Enter(p, "load_model", "load_check") /\ UNCHANGED response
  /\ UNCHANGED <<manager, lock, op, arg, request, task_type, ret, gen_engine,
                 pre, acts, hist>>

\* `if success: return {...}` with the current model; `else: raise
\* HTTPException(503)`, inside the same try block.
SwapResult(p) ==
  /\ At(p, "swap_result")
  /\ IF ret[p]
       THEN /\ response' = [response EXCEPT ![p] =
                  [status |-> 200, detail |-> "success", model_key |-> current_model]]
            /\ pc' = [pc EXCEPT ![p] = "done"]
            /\ frames' = [frames EXCEPT ![p] = <<>>]
       ELSE Fail(p, HTTPException(503, "model load failed"))
  /\ UNCHANGED <<manager, lock, op, arg, request, task_type, model_key, ret,
                 gen_engine, pre, acts, hist>>

\* ------------------------------------------------------------ GET /health
\* What get_available_vram_gb may return, in whole GB: 0.0 (no CUDA device, or
\* an exception), the margin itself, and more than the margin.
SafetyMarginGb == 2
VramReadings == {0, SafetyMarginGb, SafetyMarginGb + 1}

\* get_status(): the current model and one reading of the free VRAM.
get_status(vram) ==
  [current_model |-> current_model, model_states |-> model_states,
   available_vram_gb |-> vram]

\* is_healthy, from the manager's current_model and the status.
IsHealthy(status) ==
  /\ current_model # None
  /\ status.available_vram_gb > SafetyMarginGb

CallHealth(p) ==
  Begin(p, "health_check", None, NoRequest, FreshSnapshot, "health")

\* The handler has no suspension point: it reads the status and answers.
HealthCheck(p) ==
  /\ At(p, "health")
  /\ \E vram \in VramReadings :
       LET status == get_status(vram)
       IN  response' = [response EXCEPT ![p] =
             [status |-> IF IsHealthy(status) THEN 200 ELSE 503,
              text |-> IF IsHealthy(status) THEN "healthy" ELSE "unhealthy",
              current_model |-> status.current_model,
              available_vram_gb |-> status.available_vram_gb]]
  /\ pc' = [pc EXCEPT ![p] = "done"]
  /\ frames' = [frames EXCEPT ![p] = <<>>]
  /\ UNCHANGED <<manager, lock, op, arg, request, task_type, model_key, ret,
                 gen_engine, pre, acts, hist>>

\* ----------------------------------------------------------- GET /metrics
\* Enum.name: the member's name, which is not its value.
EnumName(state) ==
  CASE state = UNLOADED  -> "UNLOADED"
    [] state = LOADING   -> "LOADING"
    [] state = LOADED    -> "LOADED"
    [] state = UNLOADING -> "UNLOADING"
    [] state = ERROR     -> "ERROR"

\* is_loaded = 1 if model_states[model_key].name == "loaded" else 0
is_loaded(key) == IF EnumName(model_states[key]) = "loaded" THEN 1 ELSE 0

CallMetrics(p) ==
  Begin(p, "metrics", None, NoRequest, FreshSnapshot, "metrics")

\* One vllm_model_loaded line per registered key.
Metrics(p) ==
  /\ At(p, "metrics")
  /\ response' = [response EXCEPT ![p] =
       [status |-> 200, vllm_model_loaded |-> [k \in Keys |-> is_loaded(k)]]]
  /\ pc' = [pc EXCEPT ![p] = "done"]
  /\ frames' = [frames EXCEPT ![p] = <<>>]
  /\ UNCHANGED <<manager, lock, op, arg, request, task_type, model_key, ret,
                 gen_engine, pre, acts, hist>>

\* ------------------------------------------- the operator: make_request
\* How one attempt can end: a parsed body, or an exception raised by the
\* request, by raise_for_status or by response.json().
AttemptOutcomes == {"ok", "ConnectionError", "HTTPError", "JSONDecodeError"}

\* A statement of the operator; the counters it does not touch are listed by
\* each action.
CAt(label) == c_pc = label

CallMakeRequest ==
  /\ CAt("idle")
  /\ \E n \in 0..MaxRetry : retry_count' = n
  /\ c_op' = "make_request"
  /\ outcomes' = <<>>
  /\ c_result' = NoResult
  /\ c_pc' = "mr_loop"
  /\ UNCHANGED <<max_wait_time, elapsed, polls, last_answer, ready, inference_requests>>

\* `for attempt in range(self.retry_count)`: the next attempt, or, the range
\* exhausted, `return {}`.  The loop variable is the number of attempts made.
MrLoop ==
  /\ CAt("mr_loop")
  /\ IF Len(outcomes) < retry_count
       THEN c_pc' = "mr_attempt" /\ UNCHANGED c_result
       ELSE /\ c_result' = [kind |-> "returned", value |-> "empty", attempt |-> 0]
            /\ c_pc' = "c_done"
  /\ UNCHANGED <<c_op, retry_count, outcomes, max_wait_time, elapsed, polls,
                 last_answer, ready, inference_requests>>

\* `if attempt == self.retry_count - 1: raise`, attempt counted from 0.
IsLastAttempt_Never(attempt, n) == FALSE
IsLastAttempt(attempt, n) == attempt = n - 1

\* One attempt: the body is returned, or the exception is logged and, on the
\* last attempt, raised again.
MrAttempt ==
  /\ CAt("mr_attempt")
  /\ \E outcome \in AttemptOutcomes :
       LET attempt == Len(outcomes) IN
       /\ outcomes' = Append(outcomes, outcome)
       /\ IF outcome = "ok"
            THEN /\ c_result' = [kind |-> "returned", value |-> "body",
                                 attempt |-> attempt + 1]
                 /\ c_pc' = "c_done"
            ELSE IF IsLastAttempt(attempt, retry_count)
              THEN /\ c_result' = [kind |-> "raised", value |-> outcome,
                                   attempt |-> attempt + 1]
                   /\ c_pc' = "c_done"
              ELSE c_pc' = "mr_loop" /\ UNCHANGED c_result
  /\ UNCHANGED <<c_op, retry_count, max_wait_time, elapsed, polls, last_answer,
                 ready, inference_requests>>

\* ------------------------------------------------ the operator: execute
\* time.sleep(10) and the timeout of a health poll, in seconds.
SleepSeconds == 10
PollTimeout  == 10

\* What a health poll can give: the server's two answers, a 200 with another
\* body, and an exception (connection refused, timeout, a body that is no JSON).
HealthAnswers ==
  { [status_code |-> 200, status |-> "healthy"],
    [status_code |-> 200, status |-> "unknown"],
    [status_code |-> 503, status |-> "unhealthy"],
    [status_code |-> 0,   status |-> "exception"] }

\* response.status_code == 200 and health_data.get('status') == 'healthy'
IsReady_AnyStatus200(answer) == answer.status_code = 200
IsReady(answer) == answer.status_code = 200 /\ answer.status = "healthy"

\* execute(): start_time = time.time() of _wait_for_model_ready.
CallExecute ==
  /\ CAt("idle")
  /\ \E w \in {0, SleepSeconds, MaxWaitTime} : max_wait_time' = w
  /\ c_op' = "execute"
  /\ elapsed' = 0
  /\ polls' = 0
  /\ last_answer' = NoAnswer
  /\ ready' = FALSE
  /\ inference_requests' = 0
  /\ c_result' = NoResult
  /\ c_pc' = "wait_test"
  /\ UNCHANGED <<retry_count, outcomes>>

\* `while time.time() - start_time < max_wait_time`; the loop left, return False.
WaitTest ==
  /\ CAt("wait_test")
  /\ IF elapsed < max_wait_time
       THEN c_pc' = "wait_poll"
       ELSE c_pc' = "exec_check"
  /\ UNCHANGED <<c_op, retry_count, outcomes, max_wait_time, elapsed, polls,
                 last_answer, ready, inference_requests, c_result>>

\* One poll of /health, which answers at once or takes up to its timeout;
\* return True for a healthy answer, everything else goes on to the sleep.
WaitPoll ==
  /\ CAt("wait_poll")
  /\ \E answer \in HealthAnswers : \E took \in {0, PollTimeout} :
       /\ last_answer' = answer
       /\ elapsed' = elapsed + took
       /\ IF IsReady(answer)
            THEN ready' = TRUE /\ c_pc' = "exec_check"
            ELSE ready' = FALSE /\ c_pc' = "wait_sleep"
  /\ polls' = polls + 1
  /\ UNCHANGED <<c_op, retry_count, outcomes, max_wait_time, inference_requests,
                 c_result>>

\* time.sleep(10)
WaitSleep ==
  /\ CAt("wait_sleep")
  /\ elapsed' = elapsed + SleepSeconds
  /\ c_pc' = "wait_test"
  /\ UNCHANGED <<c_op, retry_count, outcomes, max_wait_time, polls, last_answer,
                 ready, inference_requests, c_result>>

\* `if not self._wait_for_model_ready(): raise RuntimeError`
ExecCheck ==
  /\ CAt("exec_check")
  /\ IF ~ready
       THEN /\ c_result' = [kind |-> "raised", value |-> "RuntimeError", attempt |-> 0]
            /\ c_pc' = "c_done"
       ELSE c_pc' = "exec_infer" /\ UNCHANGED c_result
  /\ UNCHANGED <<c_op, retry_count, outcomes, max_wait_time, elapsed, polls,
                 last_answer, ready, inference_requests>>

\* The status query and the task's inference request (one requests.post to
\* /v1/chat/completions), which gives a body or raises.
ExecInfer ==
  /\ CAt("exec_infer")
  /\ inference_requests' = inference_requests + 1
  /\ \E outcome \in AttemptOutcomes :
       c_result' = IF outcome = "ok"
                     THEN [kind |-> "returned", value |-> "body", attempt |-> 1]
                     ELSE [kind |-> "raised", value |-> outcome, attempt |-> 1]
  /\ c_pc' = "c_done"
  /\ UNCHANGED <<c_op, retry_count, outcomes, max_wait_time, elapsed, polls,
                 last_answer, ready>>

\* The caller has the result; the operator is ready for another call.
ClientFinish ==
  /\ CAt("c_done")
  /\ c_pc' = "idle"
  /\ c_op' = "none"
  /\ retry_count' = 0
  /\ outcomes' = <<>>
  /\ max_wait_time' = 0
  /\ elapsed' = 0
  /\ polls' = 0
  /\ last_answer' = NoAnswer
  /\ ready' = FALSE
  /\ inference_requests' = 0
  /\ c_result' = NoResult

ClientContinue ==
  \/ MrLoop \/ MrAttempt
  \/ WaitTest \/ WaitPoll \/ WaitSleep \/ ExecCheck \/ ExecInfer
  \/ ClientFinish

\* The operator on its own: the server's answers are what the polls and
\* attempts draw, its state does not move.
ClientNext == (CallMakeRequest \/ CallExecute \/ ClientContinue) /\ UNCHANGED server

\* A method that was called runs on: the calls it makes return or time out.
ClientSpec == Init /\ [][ClientNext]_vars /\ WF_vars(ClientContinue /\ UNCHANGED server)

\* ------------------------------------------------------- the specification
\* The steps of a call that has begun.
Continue(p) ==
  \/ EnsureLookup(p) \/ EnsureCheck(p)
  \/ LoadCheck(p) \/ LoadAcquire(p) \/ LoadFastPath(p) \/ LoadEvict(p)
  \/ LoadEngine(p) \/ LoadSetCurrent(p) \/ LoadSetLoaded(p) \/ LoadExcept(p)
  \/ UnloadCheck(p) \/ UnloadAcquire(p) \/ UnloadMark(p) \/ UnloadRelease(p)
  \/ UnloadSetUnloaded(p) \/ UnloadClearCurrent(p) \/ UnloadExcept(p)
  \/ ChatTask(p) \/ ChatReady(p) \/ ChatGenerate(p) \/ ChatAwait(p)
  \/ ChatRespond(p)
  \/ SwapCheck(p) \/ SwapResult(p)
  \/ HealthCheck(p) \/ Metrics(p)
  \/ Finish(p)

Start(p) ==
  \/ CallEnsure(p) \/ CallLoad(p) \/ CallUnload(p) \/ CallChat(p)
  \/ CallSwap(p) \/ CallHealth(p) \/ CallMetrics(p)

\* The server on its own: the operator does not move.
Next == (\E p \in Procs : Start(p) \/ Continue(p)) /\ UNCHANGED client

Spec == Init /\ [][Next]_vars

\* A call that has begun is carried on: the event loop runs every coroutine
\* that is ready, and the engine's calls return.
FairSpec == Spec /\ \A p \in Procs : WF_vars(Continue(p) /\ UNCHANGED client)

TypeOK ==
  /\ current_model \in Keys \cup {None}
  /\ model_states \in [Keys -> ModelState]
  /\ vllm_engine \in Keys \cup {None}
  /\ lock \in Procs \cup {NoProc}
  /\ running \in Procs \cup {NoProc}
  /\ \A p \in Procs : ret[p] \in BOOLEAN /\ acts[p].constructed \in 0..1
  /\ hist = Forgotten \/ Len(hist) <= MaxHist


\* ------------------------------------------------------------ the claims
\* The call of p has returned and p still has the thread: the state the
\* caller sees.
Done(p) == pc[p] = "done"

ManagerCall(p) == op[p] \in {"ensure_model_loaded", "load_model"}

\* The key a manager call of p is for; None when there is none.
TargetKey(p) ==
  IF op[p] = "load_model" THEN arg[p]
  ELSE IF \E k \in Keys : models[k].task_type = arg[p]
         THEN CHOOSE k \in Keys : models[k].task_type = arg[p]
         ELSE None

Loaded == {k \in Keys : model_states[k] = LOADED}

\* C1. Capacity invariant: in every reachable state at most one model key has
\* state Loaded.
C1_CapacityInvariant == Cardinality(Loaded) <= 1

\* A load for another key is under way while a model is Loaded.
C1_Witness ==
  \E p \in Procs :
    /\ pc[p] = "load_evict"
    /\ current_model \in Keys
    /\ current_model # model_key[p]
    /\ model_states[current_model] = LOADED

\* The coroutine that has the thread waits for the lock while it is held:
\* the thread is blocked, so no holder can run to release it.
Blocked(p) ==
  /\ running = p
  /\ pc[p] \in {"load_acquire", "unload_acquire"}
  /\ lock # NoProc

\* C2. Every call returns: the manager never blocks forever on its own lock,
\* and the lock is free once the call has returned.
C2_CallsNeverBlock ==
  \A p \in Procs :
    /\ ~Blocked(p)
    /\ Done(p) => lock = NoProc

\* ensure_model_loaded(TRANSLATION) begins with content_transformation the
\* Loaded current model.
C3_SwapStart(p) ==
  /\ pc[p] = "ensure_lookup"
  /\ op[p] = "ensure_model_loaded"
  /\ arg[p] = TRANSLATION
  /\ current_model = "content_transformation"
  /\ model_states["content_transformation"] = LOADED

\* An engine call of p failed, or p's call has returned True after the swap.
C3_SwapEnd(p) ==
  \/ acts[p].load_failed
  \/ acts[p].unload_failed
  \/ /\ Done(p)
     /\ ret[p]
     /\ current_model = "translation"
     /\ model_states["translation"] = LOADED
     /\ model_states["content_transformation"] = UNLOADED

\* C3. Swap scenario: ensure_model_loaded(TRANSLATION), called when
\* content_transformation is the Loaded current model, leads to the call
\* having returned True with translation the Loaded current model and
\* content_transformation Unloaded, unless an engine call of it failed.
C3_SwapScenario == \A p \in Procs : C3_SwapStart(p) ~> C3_SwapEnd(p)

\* load_model for B holds the lock and finds A the Loaded current model.
C4_EvictStart(p, A, B) ==
  /\ pc[p] = "load_fast"
  /\ model_key[p] = B
  /\ current_model = A
  /\ model_states[A] = LOADED

\* A has been evicted and B is not Loaded yet.
C4_Evicted(A, B) ==
  /\ model_states[A] \in {UNLOADED, ERROR}
  /\ model_states[B] # LOADED

\* C4. Eviction before fill: when a load for key B finds another key A
\* Loaded, A reaches Unloaded or Error, and it does so while B is not yet
\* Loaded.
C4_EvictionBeforeFill ==
  \A p \in Procs : \A A \in Keys : \A B \in Keys \ {A} :
    C4_EvictStart(p, A, B) ~> C4_Evicted(A, B)

\* No key is Loaded while another key is Loaded or Unloading.
NoFillBeforeEviction ==
  \A A \in Keys : \A B \in Keys \ {A} :
    model_states[B] = LOADED => model_states[A] \notin {LOADED, UNLOADING}

\* C5. Idempotent fast path: ensure_model_loaded for the task type whose key is
\* the Loaded current model returns True with the manager's state as it was,
\* no engine built and none released; and two ensure_model_loaded calls for
\* the same task type on a fresh manager, with no engine failure, both return
\* True and build one engine between them.
C5_IdempotentFastPath ==
  /\ \A p \in Procs :
       ( /\ Done(p)
         /\ op[p] = "ensure_model_loaded"
         /\ TargetKey(p) # None
         /\ pre[p].current_model = TargetKey(p)
         /\ pre[p].model_states[TargetKey(p)] = LOADED )
       => /\ ret[p]
          /\ Snapshot = pre[p]
          /\ acts[p].constructed = 0
          /\ acts[p].released = 0
  /\ ( /\ hist # Forgotten
       /\ Len(hist) >= 2
       /\ hist[1].task = hist[2].task
       /\ hist[1].task \in TaskType
       /\ ~hist[1].load_failed
       /\ ~hist[2].load_failed )
     => /\ hist[1].ok
        /\ hist[2].ok
        /\ hist[1].constructed + hist[2].constructed = 1

\* The second of two such calls has returned.
C5_Witness ==
  /\ hist # Forgotten
  /\ Len(hist) = 2
  /\ hist[1].task = hist[2].task
  /\ hist[1].ok
  /\ hist[1].constructed = 1
  /\ hist[2].ok

\* C6. Unknown inputs are rejected without side effects: load_model with a key
\* that is not registered and ensure_model_loaded with a task type no model
\* serves return False, change no manager state, and neither take the lock
\* nor touch the engine.
C6_UnknownRejected ==
  \A p \in Procs :
    ( /\ Done(p)
      /\ \/ op[p] = "load_model" /\ arg[p] \notin Keys
         \/ op[p] = "ensure_model_loaded"
              /\ \A k \in Keys : models[k].task_type # arg[p] )
    => /\ ~ret[p]
       /\ Snapshot = pre[p]
       /\ acts[p] = NoActs
       /\ lock = NoProc

\* An unknown input has been rejected by a manager that has a current model.
C6_Witness ==
  \E p \in Procs :
    /\ Done(p)
    /\ ManagerCall(p)
    /\ TargetKey(p) \notin Keys
    /\ current_model # None

\* C7. Load failure outcome: a call in which the engine construction failed
\* returns False with its key in Error and no current model.
C7_LoadFailureOutcome ==
  \A p \in Procs :
    (Done(p) /\ ManagerCall(p) /\ acts[p].load_failed)
    => /\ ~ret[p]
       /\ model_states[TargetKey(p)] = ERROR
       /\ current_model = None

\* load_model is about to evict the current model.
C8_EvictStart(p) ==
  /\ pc[p] = "load_evict"
  /\ current_model # None
  /\ current_model # model_key[p]

\* The release succeeded, or the call has returned with its key Loaded or
\* Error.
C8_Progress(p) ==
  \/ pc[p] = "unload_set_unloaded"
  \/ Done(p) /\ model_key[p] \in Keys /\ model_states[model_key[p]] \in {LOADED, ERROR}

\* C8. Unload failure does not block progress: a load that has to evict the
\* current model, and whose release does not succeed, still ends with its own
\* key Loaded or Error.
C8_UnloadFailureProgress == \A p \in Procs : C8_EvictStart(p) ~> C8_Progress(p)

\* C9. Scheduling failures surface as 503: a chat completion whose
\* ensure_model_loaded returned False is answered with status 503.
C9_SchedulingFailure503 ==
  \A p \in Procs :
    (Done(p) /\ op[p] = "create_chat_completion" /\ ~ret[p])
    => response[p].status = 503

\* p's call is ensure_model_loaded for a key that was in Error, with no
\* current model, when the call began.
C10_RetryCall(p) ==
  /\ op[p] = "ensure_model_loaded"
  /\ TargetKey(p) # None
  /\ pre[p].current_model = None
  /\ pre[p].model_states[TargetKey(p)] = ERROR

\* C10. Explicit retry from Error: ensure_model_loaded for a task type whose
\* key is in Error, with no current model, takes the key from Error to
\* Loading and, the engine built, to Loaded; it makes the key current and
\* returns True.
C10_RetryFromError ==
  \A p \in Procs :
    C10_RetryCall(p) =>
      LET B == TargetKey(p) IN
      /\ pc[p] \in {"ensure_lookup", "ensure_check", "load_check", "load_acquire",
                    "load_fast"} => model_states[B] = ERROR
      /\ pc[p] \in {"load_evict", "load_engine", "load_set_current",
                    "load_set_loaded"} => model_states[B] = LOADING
      /\ pc[p] \notin {"unload_check", "unload_acquire", "unload_mark",
                       "unload_release", "unload_set_unloaded",
                       "unload_clear_current", "unload_except"}
      /\ (Done(p) /\ ~acts[p].load_failed) =>
            /\ ret[p]
            /\ model_states[B] = LOADED
            /\ current_model = B
            /\ vllm_engine = B
            /\ acts[p].constructed = 1

\* Such a retry has returned True.
C10_Witness ==
  \E p \in Procs : C10_RetryCall(p) /\ Done(p) /\ ret[p]

\* A step takes key k out of Error.
LeavesError(k) == model_states[k] = ERROR /\ model_states'[k] # ERROR

\* The step is the one of a load_model call for k (made directly or by
\* ensure_model_loaded) that marks k Loading.
ExplicitLoadOf(k) ==
  \E p \in Procs :
    /\ running = p
    /\ pc[p] = "load_fast"
    /\ model_key[p] = k
    /\ model_states'[k] = LOADING

\* C11. No automatic retry: a call builds the engine at most once, and a key in
\* Error stays in Error until a load_model / ensure_model_loaded call for that
\* key takes it to Loading.
C11_NoAutomaticRetry ==
  /\ [](\A p \in Procs : acts[p].constructed <= 1)
  /\ [][\A k \in Keys : LeavesError(k) => ExplicitLoadOf(k)]_vars

\* The half of C11 that the code keeps: one construction per call at most, and
\* a key in Error is never built again by the call that failed.
OneConstructionPerCall ==
  \A p \in Procs :
    /\ acts[p].constructed <= 1
    /\ (Done(p) /\ ManagerCall(p) /\ acts[p].load_failed)
         => model_states[model_key[p]] = ERROR

\* C12. Generation failures never mutate the manager: the step in which the
\* handler learns that generate raised or gave no output leaves current_model,
\* model_states, the engine handle and the lock as they were, and the handler
\* answers with an error.
C12_GenerationFailureFrame ==
  [][\A p \in Procs :
       (pc[p] = "chat_await" /\ pc'[p] = "done")
       => /\ manager' = manager
          /\ lock' = lock
          /\ response'[p].status >= 400]_vars

\* A generation has failed on a handler whose model is still the Loaded
\* current model.
C12_Witness ==
  \E p \in Procs :
    /\ Done(p)
    /\ op[p] = "create_chat_completion"
    /\ gen_engine[p] # None
    /\ response[p].detail \in {"generation error", "No output generated"}
    /\ current_model = gen_engine[p]
    /\ model_states[current_model] = LOADED
    /\ vllm_engine = gen_engine[p]

\* p serves a chat completion that has not yet started its generation, and the
\* model of its task type was the Loaded current model when the request came.
C13_ForResidentModel(p) ==
  /\ op[p] = "create_chat_completion"
  /\ task_type[p] \in TaskType
  /\ pre[p].current_model = ModelKeyForTask(task_type[p])
  /\ pre[p].model_states[ModelKeyForTask(task_type[p])] = LOADED

\* C13. Concurrent requests for the resident model: a chat completion for the
\* task type whose model is the Loaded current model passes ensure_model_loaded
\* with True and goes on to generate; up to there it builds and releases no
\* engine, never takes the lock and leaves the manager's state as it was; and
\* no coroutine holds the lock while its generate call is in progress.
C13_ConcurrentResident ==
  \A p \in Procs :
    /\ C13_ForResidentModel(p) =>
         /\ pc[p] \in {"ensure_lookup", "ensure_check", "chat_ready", "chat_generate"}
         /\ pc[p] \in {"chat_ready", "chat_generate"} => ret[p]
         /\ Snapshot = pre[p]
         /\ acts[p] = NoActs
         /\ lock # p
    /\ pc[p] = "chat_await" => lock # p

\* Two requests for the resident model have their generate calls in progress
\* at the same time, neither having built or released an engine.
C13_Witness ==
  \E p \in Procs : \E q \in Procs \ {p} :
    /\ pc[p] = "chat_await" /\ pc[q] = "chat_await"
    /\ task_type[p] = task_type[q]
    /\ gen_engine[p] = current_model /\ gen_engine[q] = current_model
    /\ model_states[current_model] = LOADED
    /\ acts[p] = NoActs /\ acts[q] = NoActs
    /\ ret[p] /\ ret[q]
    /\ lock = NoProc

\* C14. Health reflects residency: GET /health answers 200 exactly when some
\* key is Loaded and the free VRAM exceeds the safety margin, and 503 in every
\* other state.
C14_HealthReflectsResidency ==
  \A p \in Procs :
    (Done(p) /\ op[p] = "health_check")
    => /\ response[p].status \in {200, 503}
       /\ response[p].status = 200
            <=> /\ \E k \in Keys : model_states[k] = LOADED
                /\ response[p].available_vram_gb > SafetyMarginGb

\* What the code does keep: a Loaded model with enough free VRAM is reported
\* healthy, and no current model or too little VRAM is reported unhealthy.
HealthWhenLoaded ==
  \A p \in Procs :
    (Done(p) /\ op[p] = "health_check")
    => /\ ( /\ \E k \in Keys : model_states[k] = LOADED
            /\ response[p].available_vram_gb > SafetyMarginGb )
          => response[p].status = 200
       /\ (current_model = None \/ response[p].available_vram_gb <= SafetyMarginGb)
          => response[p].status = 503

\* C15. Metrics loaded flag: for every registered key the vllm_model_loaded
\* gauge of GET /metrics is 1 exactly when the key's state is Loaded, and 0
\* otherwise.
C15_MetricsLoadedFlag ==
  \A p \in Procs :
    (Done(p) /\ op[p] = "metrics")
    => \A k \in Keys :
         response[p].vllm_model_loaded[k] = IF model_states[k] = LOADED THEN 1 ELSE 0

\* What the code emits: the gauge is 0 for every key in every state.
MetricsFlagAlwaysZero ==
  \A p \in Procs :
    (Done(p) /\ op[p] = "metrics")
    => \A k \in Keys : response[p].vllm_model_loaded[k] = 0

\* C16. Successful generation yields a response: when ensure_model_loaded has
\* returned True and generate has produced a final output with a completion,
\* the handler answers 200 with the envelope carrying the task type and the
\* model key, and not with an error.
C16_SuccessYieldsResponse ==
  [][\A p \in Procs :
       (pc[p] = "chat_respond" /\ ret[p] /\ pc'[p] = "done")
       => /\ response'[p].status = 200
          /\ response'[p].detail = task_type[p]
          /\ response'[p].model_key \in Keys]_vars

\* What the code does: no chat completion is ever answered with 200.
ChatNeverSucceeds ==
  \A p \in Procs :
    (Done(p) /\ op[p] = "create_chat_completion") => response[p].status = 500

AnswerNamesServingModel ==
  \A p \in Procs :
    (Done(p) /\ op[p] = "create_chat_completion" /\ response[p].status = 200)
    => response[p].model_key = gen_engine[p]

\* C18. Task-type resolution: the task type a chat completion passes to
\* ensure_model_loaded is the request's task_type hint when the hint names a
\* TaskType, whatever the messages say, and the classifier's result for the
\* messages otherwise; the request is not rejected.
C18_TaskTypeResolution ==
  \A p \in Procs :
    (op[p] = "create_chat_completion" /\ pc[p] \in {"ensure_lookup", "ensure_check"})
    => LET hint == request[p].task_type IN
       /\ hint \in TaskType => task_type[p] = hint
       /\ hint \notin TaskType
            => task_type[p] = determine_task_type_from_messages(request[p].messages)
       /\ response[p] = NoResponse
       /\ pc[p] = "ensure_check" => models[model_key[p]].task_type = task_type[p]

\* A request with a valid hint that its messages contradict has had its model
\* looked up.
C18_Witness ==
  \E p \in Procs :
    /\ op[p] = "create_chat_completion" /\ pc[p] = "ensure_check"
    /\ request[p].task_type \in TaskType
    /\ determine_task_type_from_messages(request[p].messages) # request[p].task_type
    /\ models[model_key[p]].task_type = request[p].task_type

\* A request whose hint names no task type has had the model of the
\* classifier's choice looked up.
InvalidHintClassified ==
  \E p \in Procs :
    /\ op[p] = "create_chat_completion" /\ pc[p] = "ensure_check"
    /\ request[p].task_type \notin TaskType \cup {NoHint}
    /\ model_key[p] = "translation"

\* The keywords of a set that occur in the lower-cased contents of the
\* messages.  No keyword holds a blank, so a keyword occurs in the joined text
\* exactly when it occurs in one of the words.
C19_Found(keywords, messages) ==
  {k \in keywords :
     \E i \in 1..Len(messages) : \E j \in 1..Len(messages[i].content) :
       PartOf(k, Lower(messages[i].content[j]))}

\* p serves a request that has just been classified.
C19_Classified(p) ==
  /\ op[p] = "create_chat_completion"
  /\ pc[p] = "ensure_lookup"
  /\ request[p].task_type \notin TaskType

\* C19. Classifier rule: the classifier returns TRANSLATION exactly when more
\* translation keywords than content keywords occur in the lower-cased message
\* contents, and CONTENT_TRANSFORMATION otherwise (ties, no match and an empty
\* message list included); messages with the same contents get the same task
\* type, whatever their roles.
C19_ClassifierRule ==
  \A p \in Procs :
    C19_Classified(p) =>
         LET t == Cardinality(C19_Found(translation_keywords, request[p].messages))
             c == Cardinality(C19_Found(content_keywords, request[p].messages))
             r == request[p]
         IN  /\ task_type[p] = IF t > c THEN TRANSLATION ELSE CONTENT_TRANSFORMATION
             /\ \A role \in {"system", "user", "assistant"} :
                  determine_task_type_from_messages(
                      [i \in 1..Len(r.messages) |-> Msg(role, r.messages[i].content)])
                    = task_type[p]

\* A tie with a keyword of each set (one in upper case, one inside a longer
\* word) has been classified.
C19_Witness ==
  \E p \in Procs :
    /\ C19_Classified(p)
    /\ Cardinality(C19_Found(translation_keywords, request[p].messages)) = 1
    /\ Cardinality(C19_Found(content_keywords, request[p].messages)) = 1
    /\ task_type[p] = CONTENT_TRANSFORMATION

\* The empty message list has been classified.
EmptyMessagesClassified ==
  \E p \in Procs :
    C19_Classified(p) /\ request[p].messages = <<>>
      /\ task_type[p] = CONTENT_TRANSFORMATION

\* p's call is unload_current_model, as the shutdown hook makes it, and it has
\* returned.
C20_ShutdownDone(p) == Done(p) /\ op[p] = "unload_current_model"

ShutdownWithNothingResident ==
  \E p \in Procs :
    /\ C20_ShutdownDone(p)
    /\ pre[p].current_model = None
    /\ \E k \in Keys : model_states[k] # UNLOADED

\* The functions p is inside.
InFrames(fs, f) == \E i \in 1..Len(fs) : fs[i] = f

\* C21. Bounded scheduler work per request: a chat completion calls
\* ensure_model_loaded once, as its first step and never again, and in the
\* course of the request the manager builds at most one engine and releases
\* at most one.
C21_BoundedWorkPerRequest ==
  /\ [](\A p \in Procs :
          op[p] = "create_chat_completion"
          => /\ acts[p].constructed <= 1
             /\ acts[p].released <= 1
             /\ pc[p] # "chat_task" => task_type[p] \in TaskType)
  /\ [][\A p \in Procs :
          /\ (op'[p] = "create_chat_completion" /\ pc'[p] = "chat_task" /\ pc[p] # "chat_task")
               => pc[p] = "idle"
          /\ (op[p] = "create_chat_completion" /\ pc[p] = "chat_task" /\ pc'[p] # "chat_task")
               => InFrames(frames'[p], "ensure_model_loaded")
          /\ ( /\ op[p] = "create_chat_completion"
               /\ InFrames(frames'[p], "ensure_model_loaded")
               /\ ~InFrames(frames[p], "ensure_model_loaded") )
               => pc[p] = "chat_task"]_vars

\* A chat completion whose one ensure_model_loaded built an engine has been
\* answered.
C21_Witness ==
  \E p \in Procs :
    /\ Done(p)
    /\ op[p] = "create_chat_completion"
    /\ acts[p].constructed = 1
    /\ acts[p].acquired = 1

\* C22. Swap endpoint error codes: POST /v1/models/swap is answered with 400
\* for a key that is not registered and with 503 for a registered key whose
\* load failed, and with 500 in neither case.
C22_SwapErrorCodes ==
  \A p \in Procs :
    (Done(p) /\ op[p] = "swap_model")
    => /\ arg[p] \notin Keys => response[p].status = 400
       /\ (arg[p] \in Keys /\ ~ret[p]) => response[p].status = 503
       /\ (arg[p] \notin Keys \/ ~ret[p]) => response[p].status # 500

\* What the code answers: 200 for a load that succeeded, 500 for everything
\* else.
SwapAnswers200Or500 ==
  \A p \in Procs :
    (Done(p) /\ op[p] = "swap_model")
    => response[p].status = IF arg[p] \in Keys /\ ret[p] THEN 200 ELSE 500

\* The edges of the state diagram of a model key.
C23_Edges ==
  { <<UNLOADED, LOADING>>, <<LOADING, LOADED>>, <<LOADING, ERROR>>,
    <<LOADED, UNLOADING>>, <<UNLOADING, UNLOADED>>, <<UNLOADING, ERROR>>,
    <<ERROR, LOADING>> }

\* C23. Per-key state machine: every change of a key's state follows an edge of
\* the diagram; no other transition occurs.
C23_PerKeyStateMachine ==
  [][\A k \in Keys :
       model_states'[k] # model_states[k]
       => <<model_states[k], model_states'[k]>> \in C23_Edges]_vars

\* The transitions the code makes: the edges it uses of the diagram, and
\* Unloading -> Loading and Error -> Unloading besides.
TransitionsOfTheCode ==
  [][\A k \in Keys :
       model_states'[k] # model_states[k]
       => <<model_states[k], model_states'[k]>>
            \in (C23_Edges \ {<<UNLOADING, ERROR>>})
                  \cup {<<UNLOADING, LOADING>>, <<ERROR, UNLOADING>>}]_vars

\* C24. Swap step order: the unload of A is carried out before the load of B
\* begins, so no state has a key B in Loading while another key A is Loaded or
\* Unloading.
C24_SwapStepOrder ==
  \A A \in Keys : \A B \in Keys \ {A} :
    model_states[B] = LOADING => model_states[A] \notin {LOADED, UNLOADING}

\* C25. Correct model at generation: when a chat completion invokes generate,
\* the Loaded current model is the one registered for the request's task type
\* and the engine is that model's, and the generation runs on that engine.
C25_CorrectModelAtGeneration ==
  \A p \in Procs :
    /\ pc[p] = "chat_generate"
         => LET key == ModelKeyForTask(task_type[p]) IN
            /\ key \in Keys
            /\ current_model = key
            /\ model_states[key] = LOADED
            /\ vllm_engine = key
    /\ pc[p] = "chat_await" => gen_engine[p] = ModelKeyForTask(task_type[p])

\* A request for translation is about to generate while the generation of a
\* request for content transformation is still in progress.
C25_Witness ==
  \E p \in Procs : \E q \in Procs \ {p} :
    /\ pc[p] = "chat_generate"
    /\ task_type[p] = TRANSLATION
    /\ pc[q] = "chat_await"
    /\ task_type[q] = CONTENT_TRANSFORMATION

\* C28. Current-key consistency: whenever the lock is free, a key is the
\* current model exactly when its state is Loaded, and there is no current
\* model exactly when no key is Loaded.
C28_CurrentKeyConsistency ==
  lock = NoProc
  => /\ \A k \in Keys : current_model = k <=> model_states[k] = LOADED
     /\ current_model = None <=> \A k \in Keys : model_states[k] # LOADED

\* The direction the code keeps: a Loaded key is the current model.
LoadedIsCurrent ==
  \A k \in Keys : model_states[k] = LOADED => current_model = k

\* C29. No transient state survives a call: when an ensure_model_loaded,
\* load_model or unload_current_model call has returned, with True or with
\* False, no key is in Loading or Unloading.
C29_NoTransientAfterCall ==
  \A p \in Procs :
    (Done(p) /\ op[p] \in {"ensure_model_loaded", "load_model", "unload_current_model"})
    => \A k \in Keys : model_states[k] \notin {LOADING, UNLOADING}

\* What the code keeps: no call that has returned leaves a key in Loading, and
\* a key is left in Unloading only by a release that raised.
TransientOnlyAfterFailedRelease ==
  \A k \in Keys :
    /\ (\A p \in Procs : pc[p] \in {"idle", "done", "chat_await"})
         => model_states[k] # LOADING
    /\ (model_states[k] = UNLOADING /\ lock = NoProc)
         => current_model = k /\ vllm_engine = k

\* A generate call of p is in progress on the engine the manager holds.
GeneratingOnHeldEngine(p) ==
  pc[p] = "chat_await" /\ gen_engine[p] # None /\ gen_engine[p] = vllm_engine

\* C30. No release under in-flight generation: no step releases the engine
\* handle while a generate call started on it is still in progress.
C30_NoReleaseUnderGeneration ==
  [][(\E p \in Procs : GeneratingOnHeldEngine(p)) => vllm_engine' = vllm_engine]_vars

\* The answer is the healthy one: status code 200 with status 'healthy'.
C26_Healthy(answer) == answer = [status_code |-> 200, status |-> "healthy"]

\* What holds at every point of an execute.
C26_WaitSafety ==
  c_op = "execute" =>
    /\ c_pc \in {"wait_test", "wait_poll", "wait_sleep"}
         => /\ ~C26_Healthy(last_answer)
            /\ ~ready
            /\ c_result = NoResult
    /\ c_pc \in {"exec_check", "exec_infer", "c_done"}
         => /\ ready => (polls >= 1 /\ C26_Healthy(last_answer))
            /\ ~ready => (elapsed >= max_wait_time /\ ~C26_Healthy(last_answer))
    /\ polls >= 1 => (polls - 1) * SleepSeconds < max_wait_time
    /\ (c_pc \in {"exec_check", "exec_infer"} \/ ~ready) => inference_requests = 0
    /\ (c_pc = "c_done" /\ ~ready)
         => c_result = [kind |-> "raised", value |-> "RuntimeError", attempt |-> 0]

\* C26. Bounded readiness wait: _wait_for_model_ready always terminates; it
\* returns True at the first health poll answered 200 / 'healthy'; it returns
\* False once max_wait_time has elapsed without one, failed and unhealthy
\* polls being retried and never raised; and execute then raises without
\* having issued an inference request.
C26_BoundedReadinessWait ==
  /\ []C26_WaitSafety
  /\ (c_op = "execute") ~> (c_pc = "c_done")

\* The wait has timed out after more than one poll, the last of which
\* raised, and execute has failed.
C26_Witness ==
  /\ c_op = "execute"
  /\ c_pc = "c_done"
  /\ ~ready
  /\ polls >= 2
  /\ last_answer.status = "exception"
  /\ c_result.kind = "raised"

\* The wait has returned True on a later poll than the first.
ReadyAfterRetries ==
  c_op = "execute" /\ c_pc = "exec_infer" /\ ready /\ polls >= 2

\* C27. Bounded request retry: make_request makes at most retry_count
\* attempts; it returns the body of the first attempt that succeeds and makes
\* no attempt after it; when all retry_count attempts have failed it raises
\* the exception of the last one; with retry_count = 0 it makes no attempt and
\* returns an empty result.
C27_BoundedRequestRetry ==
  c_op = "make_request" =>
    /\ Len(outcomes) <= retry_count
    /\ \A i \in 1..Len(outcomes) : outcomes[i] = "ok" => i = Len(outcomes)
    /\ c_pc = "c_done" =>
         IF \E i \in 1..Len(outcomes) : outcomes[i] = "ok"
           THEN c_result = [kind |-> "returned", value |-> "body",
                            attempt |-> Len(outcomes)]
           ELSE IF retry_count = 0
             THEN outcomes = <<>>
                  /\ c_result = [kind |-> "returned", value |-> "empty", attempt |-> 0]
             ELSE /\ Len(outcomes) = retry_count
                  /\ c_result = [kind |-> "raised", value |-> outcomes[retry_count],
                                 attempt |-> retry_count]

\* A request has succeeded at its second attempt with a third one to spare.
C27_Witness ==
  /\ c_op = "make_request"
  /\ c_pc = "c_done"
  /\ retry_count = 3
  /\ Len(outcomes) = 2
  /\ outcomes[1] # "ok"
  /\ c_result.kind = "returned"

\* All attempts of a request have failed and the last exception is raised.
AllAttemptsFailed ==
  /\ c_op = "make_request"
  /\ c_pc = "c_done"
  /\ Len(outcomes) >= 2
  /\ c_result.kind = "raised"
  /\ c_result.value # outcomes[1]

=============================================================================
